---------------------------- MODULE Spec2Model ----------------------------
(***************************************************************************)
(* Cluster load-balancing optimizer (main.cpp).                            *)
(*                                                                         *)
(* The pipeline of main():                                                 *)
(*   readInput -> floydWarshall -> solveAllocationGreedy ->                *)
(*   optimizeAllocationSA -> simulateMigration -> printOutput              *)
(*                                                                         *)
(* Node ids are 1..N as in the source.  The source indexes tasks from 0;   *)
(* here a task index is a position 1..T of the sequence `tasks`, and       *)
(* path_idx stays 0-based (the next hop is path[path_idx + 1]).            *)
(***************************************************************************)
EXTENDS Integers, Sequences, FiniteSets, TLC

(***************************************************************************)
(* Bounds of the model.                                                    *)
(***************************************************************************)
\* number of nodes of the input (N of the source, read from the input)
N == 3
\* number of tasks of the input (T of the source, read from the input)
T == 2
\* largest node capacity of an input
MaxCap == 2
\* largest task demand of an input
MaxDemand == 2
\* largest link cost of an input
MaxCost == 1
\* largest link bandwidth of an input
MaxBw == 1
\* largest number of link lines (M of the source) of a pipeline input
MaxLinks == 2
\* largest number of link lines of an input of the shortest-path study
MaxLinksFW == 4
\* largest link cost of an input of the shortest-path study
MaxCostFW == 2
\* the annealer polls the clock every CheckPeriod iterations
\* (the source polls every 1024 iterations: (iter & 1023) == 0)
CheckPeriod == 2
\* the wall-clock deadline has passed at the first poll at or after MaxIter
MaxIter == 4

(***************************************************************************)
(* Program constants.                                                      *)
(***************************************************************************)
INF == 1000000000

Nodes == 1..N
TaskIdx == 1..T

\* the element of a one-element set.  A loop is written
\*   Only({Loop(nxt, i + 1) : nxt \in {Body(st, i)}})
\* so that each pass works on the computed state the previous pass left.
Only(S) == CHOOSE x \in S : TRUE

VARIABLES
    pc,                 \* the function main() is about to run / is running
    nodes,              \* nodes[n] = [capacity, current_usage]
    adj_bandwidth,      \* adj_bandwidth[u][v]
    dist,               \* dist[i][j]
    next_hop,           \* next_hop[i][j]
    tasks,              \* sequence of Task records
    logs,               \* sequence of LogEntry records
    total_time_steps,
    links_read,         \* readInput: link lines read so far
    task_indices,       \* solveAllocationGreedy: the sorted order
    gi,                 \* solveAllocationGreedy: position in task_indices
    current_cost,       \* optimizeAllocationSA locals
    best_cost,
    best_assignment,
    iter,
    cooled,             \* number of times current_temp *= cooling_rate ran
    current_time,       \* simulateMigration locals
    any_unfinished,
    output,             \* the lines printOutput wrote
    entry_cost,         \* history: calculateTotalCost() at annealer entry
    min_cost_seen,      \* history: least current_cost of the annealer's walk
    other_run,          \* a second run on the same input and random draws
    link_cost           \* history: dist as readInput() left it (direct links)

vars == <<pc, nodes, adj_bandwidth, dist, next_hop, tasks, logs,
          total_time_steps, links_read, task_indices, gi, current_cost, best_cost,
          best_assignment, iter, cooled, current_time, any_unfinished,
          output, entry_cost, min_cost_seen, other_run, link_cost>>

(***************************************************************************)
(* init() and readInput()                                                  *)
(***************************************************************************)
InitDist == [i \in Nodes |-> [j \in Nodes |-> IF i = j THEN 0 ELSE INF]]

InitBandwidth == [i \in Nodes |-> [j \in Nodes |-> 0]]

InitNextHop == [i \in Nodes |-> [j \in Nodes |-> j]]

\* one link line "u v c b" applied to g = [dist, adj_bandwidth]
ReadLink(g, l) ==
    LET bw == [g.adj_bandwidth EXCEPT ![l.u][l.v] = l.b, ![l.v][l.u] = l.b]
        d  == IF l.c < g.dist[l.u][l.v]
              THEN [g.dist EXCEPT ![l.u][l.v] = l.c, ![l.v][l.u] = l.c]
              ELSE g.dist
    IN  [dist |-> d, adj_bandwidth |-> bw]

\* one task line "tid s_node dem"; the task id is the line's position
NewTask(i, in) ==
    [id |-> i, start_node |-> in.start_node, demand |-> in.demand,
     end_node |-> in.start_node, migration_cost |-> 0, path |-> <<>>,
     path_idx |-> 0, current_pos_node |-> in.start_node, finished |-> FALSE]

LinkInput(costs, bws) ==
    {[u |-> u, v |-> v, c |-> c, b |-> b] :
        u \in Nodes, v \in Nodes, c \in costs, b \in bws}

\* the link lines of the inputs: two different nodes, named in either order
\* with the same effect, so in ascending order here
LinkLines(costs, bws) == {l \in LinkInput(costs, bws) : l.u < l.v}

TaskInput == [start_node : Nodes, demand : 1..MaxDemand]

\* readInput() after "N M T" and the N node lines
NodesRead(caps) ==
    /\ pc = "readInput"
    /\ nodes = [n \in Nodes |-> [capacity |-> caps[n], current_usage |-> 0]]
    /\ adj_bandwidth = InitBandwidth
    /\ dist = InitDist
    /\ next_hop = InitNextHop
    /\ tasks = <<>>
    /\ logs = <<>>
    /\ total_time_steps = 0
    /\ links_read = 0
    /\ task_indices = <<>>
    /\ gi = 0
    /\ current_cost = 0
    /\ best_cost = 0
    /\ best_assignment = <<>>
    /\ iter = 0
    /\ cooled = 0
    /\ current_time = 0
    /\ any_unfinished = FALSE
    /\ output = <<>>
    /\ entry_cost = 0
    /\ min_cost_seen = 0
    /\ other_run = [stopped |-> FALSE]
    /\ link_cost = InitDist

Init == \E caps \in [Nodes -> 0..MaxCap] : NodesRead(caps)

\* inputs of the shortest-path study: the graph only
InitFW == NodesRead([n \in Nodes |-> 0])

\* readInput(): one pass of the loop over the M link lines
ReadLinkLine(lines, maxM) ==
    /\ pc = "readInput"
    /\ links_read < maxM
    /\ \E l \in lines :
          LET g == ReadLink([dist |-> dist, adj_bandwidth |-> adj_bandwidth], l)
          IN  /\ dist' = g.dist
              /\ adj_bandwidth' = g.adj_bandwidth
              /\ link_cost' = g.dist
    /\ links_read' = links_read + 1
    /\ UNCHANGED <<pc, nodes, next_hop, tasks, logs, total_time_steps,
                   task_indices, gi, current_cost, best_cost, best_assignment,
                   iter, cooled, current_time, any_unfinished, output,
                   entry_cost, min_cost_seen, other_run>>

\* readInput(): the M link lines are read; the loop over the task lines
ReadTaskLines(inputs) ==
    /\ pc = "readInput"
    /\ \E tks \in inputs :
          tasks' = [i \in 1..Len(tks) |-> NewTask(i, tks[i])]
    /\ links_read' = 0
    /\ pc' = "floydWarshall"
    /\ UNCHANGED <<nodes, adj_bandwidth, dist, next_hop, logs,
                   total_time_steps, task_indices, gi, current_cost, best_cost,
                   best_assignment, iter, cooled, current_time, any_unfinished,
                   output, entry_cost, min_cost_seen, other_run, link_cost>>

readInput ==
    \/ ReadLinkLine(LinkLines(1..MaxCost, 0..MaxBw), MaxLinks)
    \/ ReadTaskLines([TaskIdx -> TaskInput])

readInputFW ==
    \/ ReadLinkLine(LinkLines(0..MaxCostFW, {1}), MaxLinksFW)
    \/ ReadTaskLines({<<>>})

(***************************************************************************)
(* floydWarshall()                                                         *)
(***************************************************************************)
\* a relaxation that overlooks improvements by exactly one
FWRelaxes_OffByOne(dik, dkj, dij) ==
    /\ dik # INF
    /\ dkj # INF
    /\ dik + dkj + 1 < dij

\* the two nested conditions of the relaxation
FWRelaxes(dik, dkj, dij) ==
    /\ dik # INF
    /\ dkj # INF
    /\ dik + dkj < dij

\* a routing hint that takes the first hop of the second leg
FWNextHop_SecondLeg(nh, i, k, j) == nh[k][j]

\* the routing hint written on a relaxation
FWNextHop(nh, i, k, j) == nh[i][k]

\* the loop body for one (k, i, j), on st = [dist, next_hop], in place
FWBody(st, k, i, j) ==
    IF FWRelaxes(st.dist[i][k], st.dist[k][j], st.dist[i][j])
    THEN [dist     |-> [st.dist EXCEPT ![i][j] = st.dist[i][k] + st.dist[k][j]],
          next_hop |-> [st.next_hop EXCEPT ![i][j] = FWNextHop(st.next_hop, i, k, j)]]
    ELSE st

\* for (j = 1; j <= N; ++j): the body on the state the previous pass left
RECURSIVE FWLoopJ(_, _, _, _)
FWLoopJ(st, k, i, j) ==
    IF j > N THEN st
    ELSE Only({FWLoopJ(nxt, k, i, j + 1) : nxt \in {FWBody(st, k, i, j)}})

\* for (i = 1; i <= N; ++i)
RECURSIVE FWLoopI(_, _, _)
FWLoopI(st, k, i) ==
    IF i > N THEN st
    ELSE Only({FWLoopI(nxt, k, i + 1) : nxt \in {FWLoopJ(st, k, i, 1)}})

\* for (k = 1; k <= N; ++k)
RECURSIVE FWLoop(_, _)
FWLoop(st, k) ==
    IF k > N THEN st
    ELSE Only({FWLoop(nxt, k + 1) : nxt \in {FWLoopI(st, k, 1)}})

floydWarshall ==
    /\ pc = "floydWarshall"
    /\ LET st == FWLoop([dist |-> dist, next_hop |-> next_hop], 1)
       IN  /\ dist' = st.dist
           /\ next_hop' = st.next_hop
    /\ pc' = "solveAllocationGreedy"
    /\ UNCHANGED <<nodes, adj_bandwidth, tasks, logs, total_time_steps,
                   links_read, task_indices, gi, current_cost, best_cost, best_assignment,
                   iter, cooled, current_time, any_unfinished, output,
                   entry_cost, min_cost_seen, other_run, link_cost>>

(***************************************************************************)
(* reconstructPath()                                                       *)
(***************************************************************************)
\* the nodes the while loop pushes, walking from curr to end_node.  The walk
\* is cut after N hops: by then it has come back to a node it left, and the
\* loop of the source never ends.
RECURSIVE PathWalk(_, _, _, _)
PathWalk(nh, curr, end_node, hops) ==
    IF curr = end_node \/ hops = N THEN <<>>
    ELSE LET next == nh[curr][end_node]
         IN  <<next>> \o PathWalk(nh, next, end_node, hops + 1)

\* t.path after reconstructPath(t), for a task whose path is `path`
reconstructPath(nh, t) ==
    IF t.start_node = t.end_node THEN t.path
    ELSE t.path \o PathWalk(nh, t.start_node, t.end_node, 0)

(***************************************************************************)
(* solveAllocationGreedy()                                                 *)
(***************************************************************************)
\* the orders std::sort may leave task_indices in: descending demand, tasks
\* of equal demand in any order (std::sort is not stable)
SortedOrders(tks) ==
    {p \in [1..Len(tks) -> 1..Len(tks)] :
        /\ \A a \in 1..Len(tks), b \in 1..Len(tks) : a # b => p[a] # p[b]
        /\ \A a \in 1..Len(tks), b \in 1..Len(tks) :
              a < b => tks[p[a]].demand >= tks[p[b]].demand}

\* a reachability test that lets every node through
Unreachable_Never(d, start_node, target) == FALSE

\* the test that skips a node no chain of links joins to the task's start
\* node, in the planner's scan and in the annealer's trial
Unreachable(d, start_node, target) == d[start_node][target] = INF

\* a capacity test that admits one unit too many
GreedyFits_OffByOne(usage, demand, capacity) == usage + demand <= capacity + 1

\* the capacity test of the scan
GreedyFits(usage, demand, capacity) == usage + demand <= capacity

\* the scan over target = 1..N for task t: [best_node, min_cost]
RECURSIVE GreedyScan(_, _, _, _, _)
GreedyScan(t, nds, d, target, acc) ==
    IF target > N THEN acc
    ELSE IF Unreachable(d, t.start_node, target)
    THEN GreedyScan(t, nds, d, target + 1, acc)
    ELSE IF GreedyFits(nds[target].current_usage, t.demand, nds[target].capacity)
    THEN LET cost == d[t.start_node][target] * t.demand
         IN  IF acc.best_node = -1 \/ cost < acc.min_cost
             THEN GreedyScan(t, nds, d, target + 1,
                             [best_node |-> target, min_cost |-> cost])
             ELSE GreedyScan(t, nds, d, target + 1, acc)
    ELSE GreedyScan(t, nds, d, target + 1, acc)

\* the sort and the reset of the usage counters
GreedySort ==
    /\ pc = "solveAllocationGreedy"
    /\ \E p \in SortedOrders(tasks) : task_indices' = p
    /\ nodes' = [n \in Nodes |-> [nodes[n] EXCEPT !.current_usage = 0]]
    /\ gi' = 1
    /\ pc' = IF Len(tasks) = 0 THEN "optimizeAllocationSA" ELSE "greedy_loop"
    /\ UNCHANGED <<adj_bandwidth, dist, next_hop, tasks, logs,
                   total_time_steps, links_read, current_cost, best_cost,
                   best_assignment, iter, cooled, current_time, any_unfinished,
                   output, entry_cost, min_cost_seen, other_run, link_cost>>

\* one pass of the loop over task_indices
GreedyPlace ==
    /\ pc = "greedy_loop"
    /\ LET idx == task_indices[gi]
           t   == tasks[idx]
           r   == GreedyScan(t, nodes, dist, 1, [best_node |-> -1, min_cost |-> -1])
       IN  IF r.best_node # -1
           THEN /\ tasks' = [tasks EXCEPT ![idx].end_node = r.best_node,
                                          ![idx].migration_cost = r.min_cost]
                /\ nodes' = [nodes EXCEPT ![r.best_node].current_usage = @ + t.demand]
           ELSE UNCHANGED <<tasks, nodes>>
    /\ gi' = gi + 1
    /\ pc' = IF gi = Len(task_indices) THEN "optimizeAllocationSA" ELSE "greedy_loop"
    /\ UNCHANGED <<adj_bandwidth, dist, next_hop, logs, total_time_steps,
                   links_read, task_indices, current_cost, best_cost,
                   best_assignment, iter, cooled, current_time, any_unfinished,
                   output, entry_cost, min_cost_seen, other_run, link_cost>>

solveAllocationGreedy == GreedySort \/ GreedyPlace

(***************************************************************************)
(* optimizeAllocationSA()                                                  *)
(***************************************************************************)
RECURSIVE SumTo(_, _)
SumTo(f, n) == IF n = 0 THEN 0 ELSE f[n] + SumTo(f, n - 1)

calculateTotalCost(tks, d) ==
    SumTo([i \in 1..Len(tks) |-> d[tks[i].start_node][tks[i].end_node] * tks[i].demand],
          Len(tks))

\* a capacity test that is always passed
SAFits_NoCheck(usage, demand, capacity) == TRUE

\* the capacity test of a trial move
SAFits(usage, demand, capacity) == usage + demand <= capacity

\* a snapshot taken on every accepted move
SAImproves_Always(cur, best) == TRUE

\* the test that guards the best-ever snapshot
SAImproves(cur, best) == cur < best

\* a restore that keeps the walk's last assignment
SAFinalTarget_Current(tks, best, i) == tks[i].end_node

\* the assignment the final loop gives task i
SAFinalTarget(tks, best, i) == best[i]

\* the locals before the loop (those of solveAllocationGreedy are gone)
SAEnter ==
    /\ pc = "optimizeAllocationSA"
    /\ LET c == calculateTotalCost(tasks, dist)
       IN  /\ current_cost' = c
           /\ best_cost' = c
           /\ entry_cost' = c
           /\ min_cost_seen' = c
    /\ best_assignment' = [i \in 1..Len(tasks) |-> tasks[i].end_node]
    /\ iter' = 0
    /\ cooled' = 0
    /\ task_indices' = <<>>
    /\ gi' = 0
    /\ pc' = "sa_loop"
    /\ UNCHANGED <<nodes, adj_bandwidth, dist, next_hop, tasks, logs,
                   total_time_steps, links_read, current_time, any_unfinished,
                   output, other_run, link_cost>>

\* the clock is polled when (iter & 1023) == 0 in the source; the first poll
\* comes right after start_clock was taken and cannot find 1.8 s elapsed
AtPoll == iter % CheckPeriod = 0

DeadlineMayPass == AtPoll /\ iter > 0

DeadlineMustPass == AtPoll /\ iter >= MaxIter

\* one pass of the loop that does not break.  t_idx and new_node are the two
\* rand() draws; metropolis is the outcome of
\* exp(-cost_diff / current_temp) > rand() / RAND_MAX for the third draw.
SAIterate ==
    /\ pc = "sa_loop"
    /\ ~DeadlineMustPass
    /\ iter' = iter + 1
    /\ \E t_idx \in 1..Len(tasks), new_node \in Nodes, metropolis \in BOOLEAN :
          LET t         == tasks[t_idx]
              old_node  == t.end_node
              cost_diff == dist[t.start_node][new_node] * t.demand
                           - dist[t.start_node][old_node] * t.demand
          IN  IF new_node = old_node \/ Unreachable(dist, t.start_node, new_node)
              THEN \* continue: the cooling step is skipped
                   UNCHANGED <<nodes, tasks, current_cost, best_cost,
                               best_assignment, cooled, min_cost_seen>>
              ELSE /\ cooled' = cooled + 1
                   /\ IF /\ SAFits(nodes[new_node].current_usage, t.demand,
                                   nodes[new_node].capacity)
                         /\ (cost_diff < 0 \/ metropolis)
                      THEN LET tks == [tasks EXCEPT
                                         ![t_idx].end_node = new_node,
                                         ![t_idx].migration_cost =
                                             dist[t.start_node][new_node] * t.demand]
                               cur == current_cost + cost_diff
                           IN  /\ nodes' = [nodes EXCEPT
                                     ![old_node].current_usage = @ - t.demand,
                                     ![new_node].current_usage = @ + t.demand]
                               /\ tasks' = tks
                               /\ current_cost' = cur
                               /\ min_cost_seen' = IF cur < min_cost_seen
                                                   THEN cur ELSE min_cost_seen
                               /\ IF SAImproves(cur, best_cost)
                                  THEN /\ best_cost' = cur
                                       /\ best_assignment' =
                                            [k \in 1..Len(tks) |-> tks[k].end_node]
                                  ELSE UNCHANGED <<best_cost, best_assignment>>
                      ELSE UNCHANGED <<nodes, tasks, current_cost, best_cost,
                                       best_assignment, min_cost_seen>>
    /\ UNCHANGED <<pc, adj_bandwidth, dist, next_hop, logs, total_time_steps,
                   links_read, task_indices, gi, current_time, any_unfinished,
                   output, entry_cost, other_run, link_cost>>

\* the final loop: tasks and usage counters rebuilt from an assignment
RECURSIVE SARestore(_, _, _, _, _)
SARestore(tks, nds, d, best, i) ==
    IF i > Len(tks) THEN [tasks |-> tks, nodes |-> nds]
    ELSE LET e  == SAFinalTarget(tks, best, i)
             t1 == [tks EXCEPT ![i].end_node = e,
                               ![i].migration_cost = d[tks[i].start_node][e] * tks[i].demand]
             n1 == [nds EXCEPT ![e].current_usage = @ + tks[i].demand]
         IN  SARestore(t1, n1, d, best, i + 1)

SARestored(tks, nds, d, best) ==
    SARestore(tks, [n \in Nodes |-> [nds[n] EXCEPT !.current_usage = 0]], d, best, 1)

\* the break (elapsed > time_limit at a poll) and the restore after the loop
SAFinish ==
    /\ pc = "sa_loop"
    /\ DeadlineMayPass
    /\ LET r == SARestored(tasks, nodes, dist, best_assignment)
       IN  /\ tasks' = r.tasks
           /\ nodes' = r.nodes
    /\ pc' = "simulateMigration"
    /\ UNCHANGED <<adj_bandwidth, dist, next_hop, logs, total_time_steps,
                   links_read, task_indices, gi, current_cost, best_cost,
                   best_assignment, iter, cooled, current_time, any_unfinished,
                   output, entry_cost, min_cost_seen, other_run, link_cost>>

optimizeAllocationSA == SAEnter \/ SAIterate \/ SAFinish

(***************************************************************************)
(* simulateMigration()                                                     *)
(***************************************************************************)
\* the first loop: a path for every task that has to move
SimPrepareTask(nh, t) ==
    IF t.start_node # t.end_node
    THEN [t EXCEPT !.path = reconstructPath(nh, t),
                   !.path_idx = 0,
                   !.current_pos_node = t.start_node,
                   !.finished = FALSE]
    ELSE [t EXCEPT !.finished = TRUE]

\* a key that tells the two directions of a link apart
LinkKey_Directed(u, v) == u * 1000 + v

\* the key of the undirected link {u, v} in link_usage
LinkKey(u, v) == IF u < v THEN u * 1000 + v ELSE v * 1000 + u

LinkKeys == {LinkKey(u, v) : u \in Nodes, v \in Nodes}

\* a slot test that grants one crossing too many
SlotFree_OffByOne(used, bw) == used <= bw

\* a slot test that keeps the last slot of a link free
SlotFree_Strict(used, bw) == used + 1 < bw

\* the slot test of a link in a step
SlotFree(used, bw) == used < bw

\* the loop over i that offers link slots: [link_usage, moved]
RECURSIVE SimGrant(_, _, _, _)
SimGrant(tks, bws, i, acc) ==
    IF i > Len(tks) THEN acc
    ELSE IF tks[i].finished THEN SimGrant(tks, bws, i + 1, acc)
    ELSE LET u   == tks[i].current_pos_node
             v   == tks[i].path[tks[i].path_idx + 1]
             key == LinkKey(u, v)
         IN  IF SlotFree(acc.link_usage[key], bws[u][v])
             THEN SimGrant(tks, bws, i + 1,
                           [link_usage |-> [acc.link_usage EXCEPT ![key] = @ + 1],
                            moved      |-> Append(acc.moved, i)])
             ELSE SimGrant(tks, bws, i + 1, acc)

\* an arrival test that fires one hop early
PathDone_OffByOne(path_idx, size) == path_idx + 1 >= size

\* the test that marks a task finished after a hop
PathDone(path_idx, size) == path_idx >= size

\* the loop over tasks_moved_indices: [tasks, logs]
RECURSIVE SimMove(_, _, _, _)
SimMove(st, moved, m, time) ==
    IF m > Len(moved) THEN st
    ELSE LET idx  == moved[m]
             t    == st.tasks[idx]
             from == t.current_pos_node
             to   == t.path[t.path_idx + 1]
             t1   == [t EXCEPT !.current_pos_node = to,
                               !.path_idx = @ + 1,
                               !.finished = PathDone(t.path_idx + 1, Len(t.path))]
         IN  SimMove([tasks |-> [st.tasks EXCEPT ![idx] = t1],
                      logs  |-> Append(st.logs,
                                       [time |-> time, task_id |-> t.id,
                                        from |-> from, to |-> to])],
                     moved, m + 1, time)

\* a step counter that jumps a step
NextStep_Skip(time) == time + 2

\* current_time++ at the start of a step
NextStep(time) == time + 1

\* a stuck test that never breaks
StuckExit_Never(moved, unfinished) == FALSE

\* the break of a step in which no task moved
StuckExit(moved, unfinished) == moved = <<>> /\ unfinished

\* one pass of the while loop on
\* sim = [tasks, logs, current_time, any_unfinished, running, total_time_steps];
\* running turns FALSE when the loop is left and total_time_steps is set
SimPass(sim, bws) ==
    LET unfinished == \E i \in 1..Len(sim.tasks) : ~sim.tasks[i].finished
    IN  IF ~unfinished
        THEN [sim EXCEPT !.any_unfinished = FALSE, !.running = FALSE,
                         !.total_time_steps = sim.current_time]
        ELSE LET time == NextStep(sim.current_time)
                 g    == SimGrant(sim.tasks, bws, 1,
                                  [link_usage |-> [k \in LinkKeys |-> 0],
                                   moved |-> <<>>])
             IN  IF StuckExit(g.moved, unfinished)
                 THEN [sim EXCEPT !.any_unfinished = TRUE, !.running = FALSE,
                                  !.current_time = time,
                                  !.total_time_steps = time]
                 ELSE LET r == SimMove([tasks |-> sim.tasks, logs |-> sim.logs],
                                       g.moved, 1, time)
                      IN  [sim EXCEPT !.any_unfinished = TRUE,
                                      !.current_time = time,
                                      !.tasks = r.tasks, !.logs = r.logs]

\* the paths, current_time = 0 and any_unfinished = true (the locals of
\* optimizeAllocationSA are gone)
SimEnter ==
    /\ pc = "simulateMigration"
    /\ tasks' = [i \in 1..Len(tasks) |-> SimPrepareTask(next_hop, tasks[i])]
    /\ current_time' = 0
    /\ any_unfinished' = TRUE
    /\ current_cost' = 0
    /\ best_cost' = 0
    /\ best_assignment' = <<>>
    /\ iter' = 0
    /\ cooled' = 0
    /\ entry_cost' = 0
    /\ min_cost_seen' = 0
    /\ pc' = "sim_loop"
    /\ UNCHANGED <<nodes, adj_bandwidth, dist, next_hop, logs, total_time_steps,
                   links_read, task_indices, gi, output, other_run, link_cost>>

\* one pass of the while loop, and total_time_steps = current_time when the
\* pass leaves it
SimStep ==
    /\ pc = "sim_loop"
    /\ LET r == SimPass([tasks |-> tasks, logs |-> logs,
                         current_time |-> current_time,
                         any_unfinished |-> any_unfinished, running |-> TRUE,
                         total_time_steps |-> total_time_steps],
                        adj_bandwidth)
       IN  /\ tasks' = r.tasks
           /\ logs' = r.logs
           /\ current_time' = r.current_time
           /\ any_unfinished' = r.any_unfinished
           /\ total_time_steps' = r.total_time_steps
           /\ pc' = IF r.running THEN "sim_loop" ELSE "printOutput"
    /\ UNCHANGED <<nodes, adj_bandwidth, dist, next_hop, links_read,
                   task_indices, gi, current_cost, best_cost, best_assignment,
                   iter, cooled, output, entry_cost, min_cost_seen, other_run,
                   link_cost>>

simulateMigration == SimEnter \/ SimStep

(***************************************************************************)
(* printOutput()                                                           *)
(***************************************************************************)
\* the lines written, each the sequence of its numbers.  Task ids are the
\* positions of the tasks, so sorted_tasks is tasks.
OutputLines(tks, nds, steps, lg) ==
    [i \in 1..Len(tks) |->
        <<tks[i].id, tks[i].start_node, tks[i].end_node, tks[i].migration_cost>>]
    \o [n \in 1..N |-> <<n, nds[n].current_usage>>]
    \o << <<SumTo([i \in 1..Len(tks) |-> tks[i].migration_cost], Len(tks))>> >>
    \o << <<steps>> >>
    \o [e \in 1..Len(lg) |-> <<lg[e].time, lg[e].task_id, lg[e].from, lg[e].to>>]

printOutput ==
    /\ pc = "printOutput"
    /\ output' = OutputLines(tasks, nodes, total_time_steps, logs)
    /\ pc' = "done"
    /\ UNCHANGED <<nodes, adj_bandwidth, dist, next_hop, tasks, logs,
                   total_time_steps, links_read, task_indices, gi,
                   current_cost, best_cost, best_assignment, iter, cooled,
                   current_time, any_unfinished, entry_cost, min_cost_seen,
                   other_run, link_cost>>

(***************************************************************************)
(* main()                                                                  *)
(***************************************************************************)
Next ==
    \/ readInput
    \/ floydWarshall
    \/ solveAllocationGreedy
    \/ optimizeAllocationSA
    \/ simulateMigration
    \/ printOutput

Spec == Init /\ [][Next]_vars

\* main() runs its calls one after the other and every loop pass is taken:
\* a step that can be taken is taken
SpecFair == Spec /\ WF_vars(Next)

(***************************************************************************)
(* Two runs of main() on the same input with the same random draws          *)
(***************************************************************************)
\* simulateMigration() from its first loop to its return
RECURSIVE SimRun(_, _)
SimRun(sim, bws) ==
    IF ~sim.running THEN sim
    ELSE Only({SimRun(nxt, bws) : nxt \in {SimPass(sim, bws)}})

simulateMigrationOf(tks, nh, bws) ==
    SimRun([tasks |-> [i \in 1..Len(tks) |-> SimPrepareTask(nh, tks[i])],
            logs |-> <<>>, current_time |-> 0, any_unfinished |-> TRUE,
            running |-> TRUE, total_time_steps |-> 0], bws)

\* Up to its break, a second run that was given the same input and draws the
\* same numbers is in the state of this run.  Its clock may find the deadline
\* passed at an earlier poll: it then restores, simulates and prints from
\* the state this run has at that poll.
OtherRunStops ==
    /\ pc = "sa_loop"
    /\ DeadlineMayPass
    /\ ~other_run.stopped
    /\ LET r   == SARestored(tasks, nodes, dist, best_assignment)
           sim == simulateMigrationOf(r.tasks, next_hop, adj_bandwidth)
       IN  other_run' = [stopped  |-> TRUE,
                         end_node |-> [i \in 1..Len(tasks) |-> r.tasks[i].end_node],
                         logs     |-> sim.logs]
    /\ UNCHANGED <<pc, nodes, adj_bandwidth, dist, next_hop, tasks, logs,
                   total_time_steps, links_read, task_indices, gi,
                   current_cost, best_cost, best_assignment, iter, cooled,
                   current_time, any_unfinished, output, entry_cost,
                   min_cost_seen, link_cost>>

NextTwoRuns == Next \/ OtherRunStops

SpecTwoRuns == Init /\ [][NextTwoRuns]_vars

NextFW == readInputFW \/ floydWarshall

SpecFW == InitFW /\ [][NextFW]_vars

(***************************************************************************)
(* Properties of the shortest-path table                                   *)
(***************************************************************************)
TableBuilt == pc \notin {"readInput", "floydWarshall"}

\* the nodes joined to i by a chain of at most n declared links
RECURSIVE Linked(_, _)
Linked(i, n) ==
    IF n = 0 THEN {i}
    ELSE LET S == Linked(i, n - 1)
         IN  S \cup {v \in Nodes : \E u \in S : link_cost[u][v] # INF}

\* the sum of the direct link costs along the walk from `from` over `path`
RECURSIVE WalkCost(_, _, _)
WalkCost(from, path, h) ==
    IF h > Len(path) THEN 0
    ELSE link_cost[IF h = 1 THEN from ELSE path[h - 1]][path[h]]
         + WalkCost(from, path, h + 1)

\* C4: after floydWarshall, dist[i][j] <= dist[i][k] + dist[k][j] whenever
\* both legs are finite, and dist[i][j] is INF exactly for the pairs that no
\* chain of links joins.
C4_TriangleInequality ==
    TableBuilt =>
        /\ \A i \in Nodes, j \in Nodes, k \in Nodes :
              (dist[i][k] # INF /\ dist[k][j] # INF)
                  => dist[i][j] <= dist[i][k] + dist[k][j]
        /\ \A i \in Nodes, j \in Nodes :
              (dist[i][j] = INF) <=> (j \notin Linked(i, N))

\* a table in which a pivot k shortened a declared link i-j
C4_Witness ==
    /\ TableBuilt
    /\ \E i \in Nodes, j \in Nodes, k \in Nodes :
          /\ link_cost[i][j] # INF
          /\ dist[i][j] < link_cost[i][j]
          /\ dist[i][j] = dist[i][k] + dist[k][j]

\* C5: after floydWarshall, dist[i][i] = 0, and for every pair with finite
\* dist the walk along next_hop ends at j, uses declared links only, and the
\* direct costs of its hops add up to dist[i][j].
C5_NextHopWalk ==
    TableBuilt =>
        /\ \A i \in Nodes : dist[i][i] = 0
        /\ \A i \in Nodes, j \in Nodes :
              (i # j /\ dist[i][j] # INF) =>
                  LET p == PathWalk(next_hop, i, j, 0)
                  IN  /\ Len(p) > 0
                      /\ p[Len(p)] = j
                      /\ \A h \in 1..Len(p) :
                            link_cost[IF h = 1 THEN i ELSE p[h - 1]][p[h]] # INF
                      /\ WalkCost(i, p, 1) = dist[i][j]

\* a walk of two hops, one of them over a link of cost 0
C5_Witness ==
    /\ TableBuilt
    /\ \E i \in Nodes, j \in Nodes :
          /\ i # j
          /\ dist[i][j] # INF
          /\ LET p == PathWalk(next_hop, i, j, 0)
             IN  /\ Len(p) = 2
                 /\ p[2] = j
                 /\ link_cost[i][p[1]] = 0
                 /\ link_cost[i][j] # INF

(***************************************************************************)
(* Properties of the planner and the annealer                              *)
(***************************************************************************)
\* the demands of the tasks assigned to node n
AssignedDemand(n) ==
    SumTo([i \in 1..Len(tasks) |->
              IF tasks[i].end_node = n THEN tasks[i].demand ELSE 0], Len(tasks))

PlannerReturned == pc = "optimizeAllocationSA"

AnnealerReturned == pc = "simulateMigration"

\* C1: after solveAllocationGreedy has returned and after every accepted
\* move of optimizeAllocationSA, current_usage <= capacity on every node.
C1_UsageWithinCapacity ==
    (PlannerReturned \/ pc = "sa_loop") =>
        \A n \in Nodes : nodes[n].current_usage <= nodes[n].capacity

\* the walk has accepted a move since its last snapshot, a node is full, and
\* a task the planner could not place sits on a node beyond its capacity
C1_Witness ==
    /\ pc = "sa_loop"
    /\ \E i \in 1..Len(tasks) : tasks[i].end_node # best_assignment[i]
    /\ \E n \in Nodes :
          nodes[n].capacity > 0 /\ nodes[n].current_usage = nodes[n].capacity
    /\ \E n \in Nodes : AssignedDemand(n) > nodes[n].capacity

\* C2: the planner's assignment and the annealer's final assignment keep
\* the demands assigned to every node within its capacity, and so does the
\* usage the annealer recomputes at its end.
C2_AssignmentWithinCapacity ==
    /\ (PlannerReturned \/ AnnealerReturned) =>
          \A n \in Nodes : AssignedDemand(n) <= nodes[n].capacity
    /\ AnnealerReturned =>
          \A n \in Nodes : nodes[n].current_usage <= nodes[n].capacity

\* C6: best_cost never increases from one iteration to the next and is at
\* most the cost of the planner's assignment at every iteration.
C6_BestCostMonotone ==
    [][pc' = "sa_loop" =>
          /\ best_cost' <= entry_cost'
          /\ pc = "sa_loop" => best_cost' <= best_cost]_vars

\* the walk has improved on the planner and has since moved to a worse state
C6_Witness ==
    /\ pc = "sa_loop"
    /\ best_cost < entry_cost
    /\ current_cost > best_cost

\* C7: when optimizeAllocationSA has returned, every task has the end_node
\* of the best-ever snapshot and migration_cost dist[start][end] * demand,
\* these costs add up to best_cost, and best_cost is the least current_cost
\* of the walk.
C7_BestRestored ==
    AnnealerReturned =>
        /\ \A i \in 1..Len(tasks) :
              /\ tasks[i].end_node = best_assignment[i]
              /\ tasks[i].migration_cost =
                    dist[tasks[i].start_node][tasks[i].end_node] * tasks[i].demand
        /\ SumTo([i \in 1..Len(tasks) |-> tasks[i].migration_cost], Len(tasks))
              = best_cost
        /\ best_cost = min_cost_seen

\* the annealer returned from a walk that had improved on the planner and
\* was in a worse state than its best at the break
C7_Witness ==
    /\ AnnealerReturned
    /\ best_cost < entry_cost
    /\ current_cost > best_cost

\* C11: from the end of readInput to the return of optimizeAllocationSA,
\* dist[start_node][end_node] of every task is finite: no task is ever
\* assigned to a node that no chain of links joins to its start node.
C11_TargetsReachable ==
    pc \in {"floydWarshall", "solveAllocationGreedy", "greedy_loop",
            "optimizeAllocationSA", "sa_loop", "simulateMigration"} =>
        \A i \in 1..Len(tasks) :
            dist[tasks[i].start_node][tasks[i].end_node] # INF

\* the annealer returned with a task moved away from its start node while a
\* node out of the task's reach has room for it
C11_Witness ==
    /\ AnnealerReturned
    /\ \E i \in 1..Len(tasks), n \in Nodes :
          /\ tasks[i].end_node # tasks[i].start_node
          /\ dist[tasks[i].start_node][n] = INF
          /\ nodes[n].current_usage + tasks[i].demand <= nodes[n].capacity

\* C12: after solveAllocationGreedy has returned, after every accepted move
\* of optimizeAllocationSA and after its final restore, current_usage of
\* every node is the sum of the demands of the tasks whose end_node it is.
C12_UsageIsAssignedDemand ==
    (PlannerReturned \/ pc = "sa_loop" \/ AnnealerReturned) =>
        \A n \in Nodes : nodes[n].current_usage = AssignedDemand(n)

\* C13: after k iterations of the annealer's loop, the cooling step
\* current_temp *= cooling_rate has run exactly k times.
C13_CoolingEveryIteration ==
    pc = "sa_loop" => cooled = iter

\* the nodes that task t can reach and that have room for it
FeasibleNodes(t) ==
    {n \in Nodes :
        /\ dist[t.start_node][n] # INF
        /\ nodes[n].current_usage + t.demand <= nodes[n].capacity}

\* the least dist[start][target] * demand over the feasible nodes of t
LeastCost(t) ==
    CHOOSE c \in {dist[t.start_node][n] * t.demand : n \in FeasibleNodes(t)} :
        \A n \in FeasibleNodes(t) : c <= dist[t.start_node][n] * t.demand

\* the lowest node id among the feasible nodes of t of least cost
LowestCheapest(t) ==
    CHOOSE n \in FeasibleNodes(t) :
        /\ dist[t.start_node][n] * t.demand = LeastCost(t)
        /\ \A m \in FeasibleNodes(t) :
              dist[t.start_node][m] * t.demand = LeastCost(t) => n <= m

\* C14: for the task the planner processes, given the usages the tasks
\* before it committed: if a reachable node has room, end_node becomes the
\* lowest-id node of least dist[start][target] * demand, migration_cost
\* that least cost, and the node's usage grows by demand; otherwise end_node
\* stays start_node, migration_cost stays 0 and no usage changes.  No other
\* task is touched.
C14_GreedyChoice ==
    [][pc = "greedy_loop" =>
          LET idx == task_indices[gi]
              t   == tasks[idx]
          IN  /\ \A j \in 1..Len(tasks) : j # idx => tasks'[j] = tasks[j]
              /\ IF FeasibleNodes(t) # {}
                 THEN /\ tasks'[idx].end_node = LowestCheapest(t)
                      /\ tasks'[idx].migration_cost = LeastCost(t)
                      /\ nodes' = [nodes EXCEPT
                            ![LowestCheapest(t)].current_usage = @ + t.demand]
                 ELSE /\ tasks'[idx].end_node = t.start_node
                      /\ tasks'[idx].migration_cost = 0
                      /\ nodes' = nodes]_vars

\* the planner returned having left one task at a start node without room
\* for it and having sent another to the lower of two nodes of equal cost
C14_Witness ==
    /\ PlannerReturned
    /\ \E i \in 1..Len(tasks), j \in 1..Len(tasks) :
          /\ tasks[i].end_node = tasks[i].start_node
          /\ nodes[tasks[i].start_node].capacity < tasks[i].demand
          /\ tasks[j].end_node # tasks[j].start_node
          /\ \E n \in Nodes :
                /\ n > tasks[j].end_node
                /\ dist[tasks[j].start_node][n]
                      = dist[tasks[j].start_node][tasks[j].end_node]
                /\ nodes[n].current_usage + tasks[j].demand <= nodes[n].capacity

(***************************************************************************)
(* Properties of the simulator                                             *)
(***************************************************************************)
SimStarted == pc \in {"sim_loop", "printOutput", "done"}

SimReturned == pc \in {"printOutput", "done"}

SomeUnfinished == \E i \in 1..Len(tasks) : ~tasks[i].finished

\* the log entries of step s over the undirected link {u, v}
Crossings(s, u, v) ==
    {e \in 1..Len(logs) :
        /\ logs[e].time = s
        /\ {logs[e].from, logs[e].to} = {u, v}}

\* C3: in every step, the tasks crossing a link {u, v}, in either direction,
\* are at most adj_bandwidth[u][v].
C3_LinkBandwidth ==
    \A s \in 1..current_time, u \in Nodes, v \in Nodes :
        Cardinality(Crossings(s, u, v)) <= adj_bandwidth[u][v]

\* two tasks wanted the same link in step 1; one crossed it, the other
\* waited and crossed it in step 2
C3_Witness ==
    \E a \in 1..Len(logs), b \in 1..Len(logs) :
        /\ logs[a].task_id # logs[b].task_id
        /\ logs[a].time = 1
        /\ logs[b].time = 2
        /\ {logs[a].from, logs[a].to} = {logs[b].from, logs[b].to}
        /\ logs[b].from = tasks[logs[b].task_id].start_node
        /\ Cardinality(Crossings(1, logs[a].from, logs[a].to))
              = adj_bandwidth[logs[a].from][logs[a].to]

\* the hops all paths hold together
TotalHops == SumTo([i \in 1..Len(tasks) |-> Len(tasks[i].path)], Len(tasks))

\* C8: simulateMigration terminates.  The walk of every path ends at the
\* task's end_node.  Every pass of the while loop that does not leave it
\* logs a crossing, so current_time never exceeds the number of crossings
\* logged, which never exceeds the hops of the paths; and the loop is left
\* when all tasks are finished or at the first step without a crossing.
C8_SimulationTerminates ==
    SimStarted =>
        /\ \A i \in 1..Len(tasks) :
              tasks[i].start_node # tasks[i].end_node =>
                  /\ Len(tasks[i].path) \in 1..(N - 1)
                  /\ tasks[i].path[Len(tasks[i].path)] = tasks[i].end_node
        /\ Len(logs) <= TotalHops
        /\ \A s \in 1..current_time :
              (pc = "sim_loop" \/ s < current_time)
                  => \E e \in 1..Len(logs) : logs[e].time = s
        /\ SimReturned =>
              /\ total_time_steps = current_time
              /\ \/ ~SomeUnfinished
                 \/ ~\E e \in 1..Len(logs) : logs[e].time = current_time

\* the loop was left in a step without a crossing: a task's next link has
\* bandwidth 0
C8_Witness ==
    /\ SimReturned
    /\ \E i \in 1..Len(tasks) :
          /\ ~tasks[i].finished
          /\ adj_bandwidth[tasks[i].current_pos_node]
                          [tasks[i].path[tasks[i].path_idx + 1]] = 0
    /\ Len(logs) > 0

\* the lines of the output that are none of its task lines, node lines,
\* cost line, step line and log lines
StatusLines(out) ==
    SubSeq(out, Len(tasks) + N + 2 + Len(logs) + 1, Len(out))

\* C9: a simulation that stopped in a step without a crossing while tasks
\* remain unfinished ends in an explicit status of its own.
C9_StuckStatusExplicit ==
    (pc = "done" /\ SomeUnfinished) => StatusLines(output) # <<>>

\* C10: two runs on the same input with the same random draws end with the
\* same end_node of every task and the same migration log, whichever poll
\* the deadline of each falls on.
C10_SameSeedSameResult ==
    (pc = "done" /\ other_run.stopped) =>
        /\ \A i \in 1..Len(tasks) : tasks[i].end_node = other_run.end_node[i]
        /\ logs = other_run.logs

\* the undirected link the unfinished task i has to cross next
NextLink(i) ==
    {tasks[i].current_pos_node, tasks[i].path[tasks[i].path_idx + 1]}

LogOf(i) ==
    LET IsOf(e) == e.task_id = tasks[i].id
    IN  SelectSeq(logs, IsOf)

\* C16: the log entries of a task, in log order, are the first hops of its
\* path: the first leaves its start_node, each leaves the node the previous
\* one reached, over a declared link, in a later step; the task is finished
\* exactly when the latest of them reaches its end_node.  A task whose
\* start_node is its end_node has an empty path and no entry.
C16_LogChain ==
    SimStarted =>
        \A i \in 1..Len(tasks) :
            LET t == tasks[i]
                L == LogOf(i)
            IN  IF t.start_node = t.end_node
                THEN t.path = <<>> /\ L = <<>>
                ELSE /\ Len(L) = t.path_idx
                     /\ Len(L) <= Len(t.path)
                     /\ \A k \in 1..Len(L) :
                           /\ L[k].from = IF k = 1 THEN t.start_node ELSE L[k - 1].to
                           /\ L[k].to = t.path[k]
                           /\ link_cost[L[k].from][L[k].to] # INF
                           /\ k > 1 => L[k].time > L[k - 1].time
                     /\ t.finished <=> (L # <<>> /\ L[Len(L)].to = t.end_node)

\* a task of two hops waited in step 1, moved in steps 2 and 3 and is
\* finished
C16_Witness ==
    /\ SimStarted
    /\ \E i \in 1..Len(tasks) :
          /\ tasks[i].finished
          /\ Len(LogOf(i)) = 2
          /\ LogOf(i)[1].time = 2
          /\ LogOf(i)[2].time = 3

\* the last step in which a task moved, 0 when none has
LastMoveStep == IF logs = <<>> THEN 0 ELSE logs[Len(logs)].time

\* C17: when simulateMigration has returned with every task finished,
\* total_time_steps is the step in which the last task finished (0 when no
\* task had to move); when it has returned with a task unfinished,
\* total_time_steps is one more than the last step in which a task moved.
C17_TotalTimeSteps ==
    SimReturned =>
        /\ \A e \in 1..Len(logs) : logs[e].time <= LastMoveStep
        /\ IF SomeUnfinished
           THEN total_time_steps = LastMoveStep + 1
           ELSE /\ total_time_steps = LastMoveStep
                /\ logs # <<>> =>
                      tasks[logs[Len(logs)].task_id].current_pos_node
                          = tasks[logs[Len(logs)].task_id].end_node

\* the simulation stalled in step 2, after a step in which a task moved
C17_Witness ==
    /\ SimReturned
    /\ SomeUnfinished
    /\ LastMoveStep = 1
    /\ total_time_steps = 2

\* C18: a second call of reconstructPath on a task, with the same
\* start_node and end_node, leaves the task's path as the first call, made
\* by simulateMigration, left it.
C18_ReconstructIdempotent ==
    SimStarted =>
        \A i \in 1..Len(tasks) :
            reconstructPath(next_hop, tasks[i]) = tasks[i].path

\* every link on the reconstructed path of every task has bandwidth >= 1
PathsOpen ==
    \A i \in 1..Len(tasks) :
        \A h \in 1..Len(tasks[i].path) :
            adj_bandwidth[IF h = 1 THEN tasks[i].start_node
                          ELSE tasks[i].path[h - 1]][tasks[i].path[h]] >= 1

AllArrived ==
    \A i \in 1..Len(tasks) :
        tasks[i].finished /\ tasks[i].current_pos_node = tasks[i].end_node

\* what holds of a simulation over open paths, in every state
NoStuckExit ==
    (SimStarted /\ PathsOpen) =>
        /\ \A s \in 1..current_time : \E e \in 1..Len(logs) : logs[e].time = s
        /\ current_time <= TotalHops
        /\ SimReturned =>
              /\ AllArrived
              /\ total_time_steps <= TotalHops

\* C19: if every link on the path of every task has bandwidth >= 1, a task
\* moves in every step of the simulation, so the stuck exit is never taken;
\* the simulation returns with every task finished at its end_node, and
\* total_time_steps is at most the sum of the path lengths.
C19_OpenPathsAllArrive ==
    /\ []NoStuckExit
    /\ (pc = "sim_loop" /\ PathsOpen) ~> (SimReturned /\ AllArrived)

\* two tasks shared a link of bandwidth 1: one waited a step, and the
\* simulation returned after as many steps as the paths have hops
C19_Witness ==
    /\ SimReturned
    /\ PathsOpen
    /\ \E e \in 1..Len(logs) :
          logs[e].time > 1 /\ logs[e].from = tasks[logs[e].task_id].start_node
    /\ total_time_steps = TotalHops
    /\ total_time_steps >= 2

=============================================================================
